---- MODULE Spec2Model ----
(***************************************************************************)
(* A model of the deepfake-analyzer core:                                  *)
(*   - utils/batch_processor.py : BatchProcessor (jobs, the one shared     *)
(*     job_queue, the worker threads of every start_batch call);           *)
(*   - trust_engine/scorer.py   : trust_score (fusion and dampening);      *)
(*   - trust_engine/adversarial.py : test_robustness;                      *)
(*   - signals/*.py and trust_engine/score_fusion.py : what the signal     *)
(*     providers answer without input, and calculate_trust_score.          *)
(*                                                                         *)
(* Python values are modelled as follows.  File indices are 0-based as in  *)
(* the source; files[i] of the source is files[i + 1] here.  A job id is   *)
(* the position of the job in creation order (the callers draw a fresh     *)
(* uuid4 for every job).  The file of job j at index i is the reference    *)
(* <<j, i>>, so different jobs have disjoint file sets.  Timestamps and    *)
(* the derived 'progress' percentage of a job are left out: nothing reads  *)
(* them.  Every section the source runs under a job's lock is one atomic   *)
(* step; the analyzer call, which touches no shared state, is the state    *)
(* pc = "process" of a worker.  queue.task_done() is left out: nothing     *)
(* joins the queue.                                                        *)
(***************************************************************************)
EXTENDS Integers, Sequences, FiniteSets, Bags, TLC

\* Bounds of the model: the jobs created, and MaxItems for both the files of
\* all jobs together and the work items all start_batch calls put on the queue.
MaxJobs == 2
MaxItems == 3

\* BatchProcessor(max_workers=3)
max_workers == 3

VARIABLES
    jobs,       \* self.jobs: job id -> job dictionary
    job_queue,  \* self.job_queue: FIFO of (job_id, file_index)
    wk,         \* the worker threads: a bag of thread states (threads have no name)
    st,         \* per job: the start_batch calls made and the one in progress
    calls,      \* per job and file index: how the analyzer calls ended (history)
    snap,       \* the dictionary the last get_job_status call returned
    score_in,   \* the arguments of a call of a scoring function
    report,     \* what that call returned
    rt,         \* the test_robustness call: its arguments, locals and outcome
    lk          \* per thread that calls into a job's locked sections: where it is

vars == <<jobs, job_queue, wk, st, calls, snap, score_in, report, rt, lk>>

\* Python's None, where a dictionary or a tuple is expected.
None == [none |-> TRUE]

\* Python's None, as the default of the result and error arguments.
NoArg == "None"

Min(a, b) == IF a < b THEN a ELSE b

JobIds == 1..Len(jobs)

\* The values an analyzer can hand back: a non-empty report, or a value that
\* Python takes for false (None, {}, 0, "").  An exception e is known by str(e),
\* which is empty for an exception raised without a message.
Results == {"report", "{}"}
Errors == {"analysis failed", ""}
Outcomes == [kind : {"return"}, value : Results] \cup [kind : {"raise"}, value : Errors]

\* Python truthiness of the values above.
Truthy(v) == v \notin {NoArg, "{}", ""}

\* files as the HTTP layer builds them: one reference per uploaded file.
FilesOf(job_id, n) == [k \in 1..n |-> <<job_id, k - 1>>]

\* create_job: the job dictionary.
NewJob(job_id, files) ==
    [id |-> job_id, files |-> files, total |-> Len(files), completed |-> 0,
     status |-> "pending", results |-> <<>>, errors |-> <<>>]

\* NextStatus without the test "job['status'] == 'pending'".
NextStatusAlwaysProcessing(completed, total, status) ==
    IF completed = total THEN "completed" ELSE "processing"

\* update_job_progress, the 'Update status' branch.
NextStatus(completed, total, status) ==
    IF completed = total THEN "completed"
    ELSE IF status = "pending" THEN "processing"
    ELSE status

\* update_job_progress, 'if result:' and 'if error:'.
AppendResult(results, file_index, filename, result) ==
    IF Truthy(result)
    THEN Append(results, [file_index |-> file_index, filename |-> filename, result |-> result])
    ELSE results

AppendError(errors, file_index, filename, error) ==
    IF Truthy(error)
    THEN Append(errors, [file_index |-> file_index, filename |-> filename, error |-> error])
    ELSE errors

\* update_job_progress(job_id, file_index, result, error) for a file_index of
\* the job: the whole body runs under the job's lock.
UpdateJobProgress(job, file_index, result, error) ==
    LET completed == job.completed + 1
        filename == job.files[file_index + 1]
    IN  [job EXCEPT !.completed = completed,
                    !.results = AppendResult(job.results, file_index, filename, result),
                    !.errors = AppendError(job.errors, file_index, filename, error),
                    !.status = NextStatus(completed, job.total, job.status)]

\* update_job_progress for a file_index the job does not have: completed is
\* incremented and job['files'][file_index] raises IndexError.
UpdateJobProgressBadIndex(job) == [job EXCEPT !.completed = job.completed + 1]

\* dict.copy(): a new dictionary with the same values.  The numbers and strings
\* are the values of the moment; 'results' and 'errors' are the job's own list
\* objects, which the dictionary of a job holds from create_job on: the copy
\* names them by the job they belong to.
ShallowCopy(job) ==
    [id |-> job.id, files |-> job.files, total |-> job.total,
     completed |-> job.completed, status |-> job.status,
     results_of |-> job.id, errors_of |-> job.id]

\* What a read of copy['results'] and copy['errors'] yields now.
ResultsSeen(copy) == jobs[copy.results_of].results
ErrorsSeen(copy) == jobs[copy.errors_of].errors

\* IsForThisJob of a worker that takes whatever item it gets.
IsForAnyJob(task_job_id, job_id) == TRUE

\* _worker: 'if task_job_id == job_id'.
IsForThisJob(task_job_id, job_id) == task_job_id = job_id

Max(a, b) == IF a < b THEN b ELSE a

\* The files of all jobs created so far.
FilesCreated ==
    LET RECURSIVE Sum(_)
        Sum(j) == IF j = 0 THEN 0 ELSE jobs[j].total + Sum(j - 1)
    IN  Sum(Len(jobs))

\* The work items the start_batch calls made so far put on the queue, a call
\* for a job without files counted as one.
ItemsCommitted ==
    LET RECURSIVE Sum(_)
        Sum(j) == IF j = 0 THEN 0 ELSE st[j].starts * Max(1, jobs[j].total) + Sum(j - 1)
    IN  Sum(Len(jobs))

\* A thread about to run _worker(job_id, analyze_function).
NewWorker(job_id) == [job |-> job_id, pc |-> "get", item |-> <<>>]

\* The n threads one start_batch call starts.
Spawned(job_id, n) ==
    IF n = 0 THEN EmptyBag ELSE [w \in {NewWorker(job_id)} |-> n]

\* The threads after one of them in state w has moved to state v.
Moved(w, v) == (wk (-) SetToBag({w})) (+) SetToBag({v})

NoCalls(n) == [k \in 1..n |-> [returned |-> 0, raised |-> 0]]

----------------------------------------------------------------------------
(***************************************************************************)
(* trust_engine/scorer.py.  Numbers are exact decimals: a signal or a      *)
(* quality is a number of tenths, a raw score a number of hundredths, a    *)
(* dampening factor a number of hundredths and an adjusted score a number  *)
(* of ten-thousandths, so 0.85 * 0.77 is 85 * 77 = 6545 and the threshold  *)
(* 0.65 is 6500.  The rounding of binary floating point is not modelled.   *)
(***************************************************************************)
Tenths == 0..10

\* weights = {"vision": 0.4, "audio": 0.3, "temporal": 0.3}, in tenths.
weights == [vision |-> 4, audio |-> 3, temporal |-> 3]

\* raw_score, in hundredths.
RawScore(vision, audio, temporal) ==
    vision * weights.vision + audio * weights.audio + temporal * weights.temporal

\* QualityTier with 'quality <= 0.7' for the third branch.
QualityTierClosedAbove(quality) ==
    IF quality < 3 THEN 1
    ELSE IF quality < 5 THEN 2
    ELSE IF quality <= 7 THEN 3
    ELSE 4

\* The branch of 'if quality < 0.3 / elif < 0.5 / elif < 0.7 / else' taken.
QualityTier(quality) ==
    IF quality < 3 THEN 1
    ELSE IF quality < 5 THEN 2
    ELSE IF quality < 7 THEN 3
    ELSE 4

\* DampeningFactor with the factors of the first two branches exchanged.
DampeningFactorExchanged(tier) ==
    CASE tier = 1 -> 60
      [] tier = 2 -> 40
      [] tier = 3 -> 85
      [] tier = 4 -> 100

\* The factor raw_score is multiplied by in each branch, in hundredths
\* (the last branch takes raw_score as it is).
DampeningFactor(tier) ==
    CASE tier = 1 -> 40
      [] tier = 2 -> 60
      [] tier = 3 -> 85
      [] tier = 4 -> 100

\* DecisionAndReason with the second branch deciding by the score, as the
\* third does.
DecisionAndReasonNotForced(tier, adjusted_score) ==
    CASE tier = 1 ->
            <<"Ambiguous", "Very Low Quality Input - Cannot Make Reliable Assessment">>
      [] tier \in {2, 3} ->
            IF adjusted_score > 6500
            THEN <<"Likely Real", "Moderate Quality - Signals Indicate Real Content">>
            ELSE IF adjusted_score < 3500
            THEN <<"Likely Fake", "Moderate Quality - Multiple Suspicious Signals">>
            ELSE <<"Ambiguous", "Moderate Quality - Mixed Signals">>
      [] tier = 4 ->
            IF adjusted_score > 7000
            THEN <<"Real", "High Quality Input - Strong Real Signals">>
            ELSE IF adjusted_score < 3000
            THEN <<"Fake", "High Quality Input - Strong Deepfake Signals">>
            ELSE IF adjusted_score > 5500
            THEN <<"Likely Real", "Good Quality - Signals Lean Toward Real">>
            ELSE IF adjusted_score < 4500
            THEN <<"Likely Fake", "Good Quality - Signals Lean Toward Fake">>
            ELSE <<"Ambiguous", "Good Quality - Balanced Signals, Cannot Determine">>

\* DecisionAndReason with the third branch lacking its final else, so a score
\* between its two thresholds leaves the decision unassigned.
DecisionAndReasonNoElse(tier, adjusted_score) ==
    CASE tier = 1 ->
            <<"Ambiguous", "Very Low Quality Input - Cannot Make Reliable Assessment">>
      [] tier = 2 ->
            <<"Ambiguous", "Low Quality Input - Limited Confidence">>
      [] tier = 3 ->
            IF adjusted_score > 6500
            THEN <<"Likely Real", "Moderate Quality - Signals Indicate Real Content">>
            ELSE IF adjusted_score < 3500
            THEN <<"Likely Fake", "Moderate Quality - Multiple Suspicious Signals">>
            ELSE <<"unassigned", "unassigned">>
      [] tier = 4 ->
            IF adjusted_score > 7000
            THEN <<"Real", "High Quality Input - Strong Real Signals">>
            ELSE IF adjusted_score < 3000
            THEN <<"Fake", "High Quality Input - Strong Deepfake Signals">>
            ELSE IF adjusted_score > 5500
            THEN <<"Likely Real", "Good Quality - Signals Lean Toward Real">>
            ELSE IF adjusted_score < 4500
            THEN <<"Likely Fake", "Good Quality - Signals Lean Toward Fake">>
            ELSE <<"Ambiguous", "Good Quality - Balanced Signals, Cannot Determine">>

\* DecisionAndReason with every comparison of the last two branches closed
\* (>= for >, <= for <).
DecisionAndReasonClosed(tier, adjusted_score) ==
    CASE tier = 1 ->
            <<"Ambiguous", "Very Low Quality Input - Cannot Make Reliable Assessment">>
      [] tier = 2 ->
            <<"Ambiguous", "Low Quality Input - Limited Confidence">>
      [] tier = 3 ->
            IF adjusted_score >= 6500
            THEN <<"Likely Real", "Moderate Quality - Signals Indicate Real Content">>
            ELSE IF adjusted_score <= 3500
            THEN <<"Likely Fake", "Moderate Quality - Multiple Suspicious Signals">>
            ELSE <<"Ambiguous", "Moderate Quality - Mixed Signals">>
      [] tier = 4 ->
            IF adjusted_score >= 7000
            THEN <<"Real", "High Quality Input - Strong Real Signals">>
            ELSE IF adjusted_score <= 3000
            THEN <<"Fake", "High Quality Input - Strong Deepfake Signals">>
            ELSE IF adjusted_score >= 5500
            THEN <<"Likely Real", "Good Quality - Signals Lean Toward Real">>
            ELSE IF adjusted_score <= 4500
            THEN <<"Likely Fake", "Good Quality - Signals Lean Toward Fake">>
            ELSE <<"Ambiguous", "Good Quality - Balanced Signals, Cannot Determine">>

\* decision and reason of each branch, from adjusted_score in ten-thousandths.
DecisionAndReason(tier, adjusted_score) ==
    CASE tier = 1 ->
            <<"Ambiguous", "Very Low Quality Input - Cannot Make Reliable Assessment">>
      [] tier = 2 ->
            <<"Ambiguous", "Low Quality Input - Limited Confidence">>
      [] tier = 3 ->
            IF adjusted_score > 6500
            THEN <<"Likely Real", "Moderate Quality - Signals Indicate Real Content">>
            ELSE IF adjusted_score < 3500
            THEN <<"Likely Fake", "Moderate Quality - Multiple Suspicious Signals">>
            ELSE <<"Ambiguous", "Moderate Quality - Mixed Signals">>
      [] tier = 4 ->
            IF adjusted_score > 7000
            THEN <<"Real", "High Quality Input - Strong Real Signals">>
            ELSE IF adjusted_score < 3000
            THEN <<"Fake", "High Quality Input - Strong Deepfake Signals">>
            ELSE IF adjusted_score > 5500
            THEN <<"Likely Real", "Good Quality - Signals Lean Toward Real">>
            ELSE IF adjusted_score < 4500
            THEN <<"Likely Fake", "Good Quality - Signals Lean Toward Fake">>
            ELSE <<"Ambiguous", "Good Quality - Balanced Signals, Cannot Determine">>

\* signal_insights with a signal of exactly 0.4 reported too (<= for <).
SignalInsightsClosed(vision, audio, temporal) ==
    (IF temporal <= 4 THEN <<"high temporal inconsistency">> ELSE <<>>)
    \o (IF vision <= 4 THEN <<"visual artifacts detected">> ELSE <<>>)
    \o (IF audio <= 4 THEN <<"synthetic audio characteristics">> ELSE <<>>)

\* signal_insights, in the order the source appends them.
SignalInsights(vision, audio, temporal) ==
    (IF temporal < 4 THEN <<"high temporal inconsistency">> ELSE <<>>)
    \o (IF vision < 4 THEN <<"visual artifacts detected">> ELSE <<>>)
    \o (IF audio < 4 THEN <<"synthetic audio characteristics">> ELSE <<>>)

\* trust_score(vision, audio, temporal, quality): (adjusted_score, decision,
\* reason).  The reason string is kept as its parts: the branch's text, then
\* the insights the source joins with ', ' inside ' (...)'.
trust_score(vision, audio, temporal, quality) ==
    LET tier == QualityTier(quality)
        adjusted_score == RawScore(vision, audio, temporal) * DampeningFactor(tier)
        dr == DecisionAndReason(tier, adjusted_score)
    IN  [score |-> adjusted_score, decision |-> dr[1],
         reason |-> <<dr[2]>> \o SignalInsights(vision, audio, temporal)]

----------------------------------------------------------------------------
Init ==
    /\ jobs = <<>>
    /\ job_queue = <<>>
    /\ wk = EmptyBag
    /\ st = <<>>
    /\ calls = <<>>
    /\ snap = None
    /\ score_in = None
    /\ report = None
    /\ rt = None
    /\ lk = None

\* create_job(job_id, files) with a fresh job_id.
create_job(n) ==
    /\ Len(jobs) < MaxJobs
    /\ FilesCreated + n <= MaxItems
    /\ LET job_id == Len(jobs) + 1
       IN  /\ jobs' = Append(jobs, NewJob(job_id, FilesOf(job_id, n)))
           /\ st' = Append(st, [starts |-> 0, putting |-> FALSE, i |-> 0])
           /\ calls' = Append(calls, NoCalls(n))
    /\ UNCHANGED <<job_queue, wk, snap, score_in, report, rt, lk>>

\* start_batch(job_id, analyze_function), first loop: the worker threads.
\* The second loop (put_item) follows; with no file it has nothing to put.
start_batch(job_id) ==
    /\ ~st[job_id].putting
    /\ ItemsCommitted + Max(1, jobs[job_id].total) <= MaxItems
    /\ wk' = wk (+) Spawned(job_id, Min(max_workers, Len(jobs[job_id].files)))
    /\ st' = [st EXCEPT ![job_id] = [starts |-> @.starts + 1,
                                     putting |-> jobs[job_id].total > 0,
                                     i |-> 0]]
    /\ UNCHANGED <<jobs, job_queue, calls, snap, score_in, report, rt, lk>>

\* start_batch, one round of the second loop: self.job_queue.put((job_id, i)).
put_item(job_id) ==
    /\ st[job_id].putting
    /\ job_queue' = Append(job_queue, <<job_id, st[job_id].i>>)
    /\ st' = [st EXCEPT ![job_id].i = @ + 1,
                        ![job_id].putting = (st[job_id].i + 1 < jobs[job_id].total)]
    /\ UNCHANGED <<jobs, wk, calls, snap, score_in, report, rt, lk>>

\* _worker: job_queue.get(timeout=1) returns an item.
worker_get(w) ==
    /\ w.pc = "get"
    /\ job_queue # <<>>
    /\ LET task == Head(job_queue)
       IN  wk' = Moved(w, [w EXCEPT !.item = task,
                                    !.pc = IF IsForThisJob(task[1], w.job)
                                           THEN "process" ELSE "requeue"])
    /\ job_queue' = Tail(job_queue)
    /\ UNCHANGED <<jobs, st, calls, snap, score_in, report, rt, lk>>

\* _worker: the item is for a different job: put it back, sleep.
worker_requeue(w) ==
    /\ w.pc = "requeue"
    /\ job_queue' = Append(job_queue, w.item)
    /\ wk' = Moved(w, [w EXCEPT !.item = <<>>, !.pc = "get"])
    /\ UNCHANGED <<jobs, st, calls, snap, score_in, report, rt, lk>>

\* _worker: job_queue.get(timeout=1) raises queue.Empty.
worker_empty(w) ==
    /\ w.pc = "get"
    /\ job_queue = <<>>
    /\ wk' = Moved(w, [w EXCEPT !.pc = "check"])
    /\ UNCHANGED <<jobs, job_queue, st, calls, snap, score_in, report, rt, lk>>

\* _worker leaving its loop on the first queue.Empty, whatever the job's count.
worker_check_always_breaks(w) ==
    /\ w.pc = "check"
    /\ wk' = Moved(w, [w EXCEPT !.pc = "done"])
    /\ UNCHANGED <<jobs, job_queue, st, calls, snap, score_in, report, rt, lk>>

\* _worker: 'except queue.Empty', the check under the job's lock.
worker_check(w) ==
    /\ w.pc = "check"
    /\ LET job == jobs[w.job]
       IN  wk' = Moved(w, [w EXCEPT !.pc = IF job.completed = job.total
                                            THEN "done" ELSE "get"])
    /\ UNCHANGED <<jobs, job_queue, st, calls, snap, score_in, report, rt, lk>>

\* process_file with a retry: a file whose analysis raised is recorded and
\* its item put back on the queue.
process_file_retry(w, outcome) ==
    /\ w.pc = "process"
    /\ LET job_id == w.job
           file_index == w.item[2]
           job == jobs[job_id]
       IN  /\ jobs' = [jobs EXCEPT ![job_id] =
                         IF outcome.kind = "return"
                         THEN UpdateJobProgress(job, file_index, outcome.value, NoArg)
                         ELSE UpdateJobProgress(job, file_index, NoArg, outcome.value)]
           /\ calls' = [calls EXCEPT ![job_id][file_index + 1] =
                         IF outcome.kind = "return"
                         THEN [@ EXCEPT !.returned = @ + 1]
                         ELSE [@ EXCEPT !.raised = @ + 1]]
           /\ wk' = Moved(w, [w EXCEPT !.item = <<>>, !.pc = "get"])
    /\ job_queue' = IF outcome.kind = "raise" /\ Len(job_queue) < MaxItems
                    THEN Append(job_queue, w.item)
                    ELSE job_queue
    /\ UNCHANGED <<st, snap, score_in, report, rt, lk>>

\* process_file(job_id, file_index, analyze_function): the analyzer returns or
\* raises, and update_job_progress records it.  job_id is the worker's job.
process_file(w, outcome) ==
    /\ w.pc = "process"
    /\ LET job_id == w.job
           file_index == w.item[2]
           job == jobs[job_id]
       IN  IF file_index < Len(job.files)
           THEN /\ jobs' = [jobs EXCEPT ![job_id] =
                              IF outcome.kind = "return"
                              THEN UpdateJobProgress(job, file_index, outcome.value, NoArg)
                              ELSE UpdateJobProgress(job, file_index, NoArg, outcome.value)]
                /\ calls' = [calls EXCEPT ![job_id][file_index + 1] =
                              IF outcome.kind = "return"
                              THEN [@ EXCEPT !.returned = @ + 1]
                              ELSE [@ EXCEPT !.raised = @ + 1]]
                /\ wk' = Moved(w, [w EXCEPT !.item = <<>>, !.pc = "get"])
           ELSE \* IndexError in process_file, again in update_job_progress:
                \* 'except Exception' of _worker ends the thread.
                /\ jobs' = [jobs EXCEPT ![job_id] = UpdateJobProgressBadIndex(job)]
                /\ calls' = calls
                /\ wk' = Moved(w, [w EXCEPT !.item = <<>>, !.pc = "done"])
    /\ UNCHANGED <<job_queue, st, snap, score_in, report, rt, lk>>

\* get_job_status(job_id): None for an unknown job_id, else, under the job's
\* lock, self.jobs[job_id].copy().
get_job_status(job_id) ==
    /\ snap' = IF job_id \notin JobIds THEN None ELSE ShallowCopy(jobs[job_id])
    /\ UNCHANGED <<jobs, job_queue, wk, st, calls, score_in, report, rt, lk>>

Workers == BagToSet(wk)

Next ==
    \/ \E n \in 0..MaxItems : create_job(n)
    \/ \E job_id \in JobIds : start_batch(job_id)
    \/ \E job_id \in JobIds : put_item(job_id)
    \/ \E w \in Workers : worker_get(w)
    \/ \E w \in Workers : worker_requeue(w)
    \/ \E w \in Workers : worker_empty(w)
    \/ \E w \in Workers : worker_check(w)
    \/ \E w \in Workers, outcome \in Outcomes : process_file(w, outcome)

Spec == Init /\ [][Next]_vars

\* The batch processor with a client polling get_job_status.
NextPolled ==
    \/ Next
    \/ \E job_id \in 1..MaxJobs : get_job_status(job_id)

SpecPolled == Init /\ [][NextPolled]_vars

----------------------------------------------------------------------------
(***************************************************************************)
(* The claims about the batch processor.                                    *)
(***************************************************************************)

\* The entries of a list for one file index.
EntriesFor(entries, file_index) ==
    Cardinality({k \in 1..Len(entries) : entries[k].file_index = file_index})

FileIndices(job_id) == 0..(jobs[job_id].total - 1)

\* Every file of the job has been through the analyzer exactly once.
EveryFileAnalyzedOnce(job_id) ==
    \A i \in FileIndices(job_id) :
        calls[job_id][i + 1].returned + calls[job_id][i + 1].raised = 1

\* C1: for every job, completed == len(results) + len(errors) after every
\* progress update, whatever the analyzer returned or raised.
C1_CompletedCountsEntries ==
    \A job_id \in JobIds :
        jobs[job_id].completed
            = Len(jobs[job_id].results) + Len(jobs[job_id].errors)

\* C2: in every state of every job created by create_job, status is
\* 'completed' exactly when completed == total.
C2_CompletedIffAllDone ==
    \A job_id \in JobIds :
        (jobs[job_id].status = "completed")
            <=> (jobs[job_id].completed = jobs[job_id].total)

\* C3: a failure of the analyzer is isolated to its file: in a job started once
\* whose analyzer raised for some files, once every file has been analyzed each
\* file that raised has one entry in errors, every other file one entry in
\* results, and the job is 'completed' with completed == total.
C3_FailureIsolated ==
    \A job_id \in JobIds :
        (/\ st[job_id].starts = 1
         /\ EveryFileAnalyzedOnce(job_id)
         /\ \E i \in FileIndices(job_id) : calls[job_id][i + 1].raised = 1)
        => /\ jobs[job_id].completed = jobs[job_id].total
           /\ jobs[job_id].status = "completed"
           /\ \A i \in FileIndices(job_id) :
                IF calls[job_id][i + 1].raised = 1
                THEN /\ EntriesFor(jobs[job_id].errors, i) = 1
                     /\ EntriesFor(jobs[job_id].results, i) = 0
                ELSE /\ EntriesFor(jobs[job_id].results, i) = 1
                     /\ EntriesFor(jobs[job_id].errors, i) = 0

\* C4: with the items of several jobs in the one queue, a worker runs its
\* analyzer only for an item of the job it was started for, and the results and
\* errors of a job hold entries for that job's own files only.
C4_NoCrossJobProcessing ==
    /\ \A w \in Workers : w.pc = "process" => w.item[1] = w.job
    /\ \A job_id \in JobIds :
         LET job == jobs[job_id]
             OwnEntries(entries) ==
                 \A k \in 1..Len(entries) :
                     /\ entries[k].filename[1] = job_id
                     /\ entries[k].file_index \in FileIndices(job_id)
                     /\ entries[k].filename = job.files[entries[k].file_index + 1]
         IN  OwnEntries(job.results) /\ OwnEntries(job.errors)

\* Two started jobs, each with an entry recorded, while a worker holds an item
\* of the other job that it took from the shared queue.
C4_Witness ==
    /\ Len(jobs) = 2
    /\ \A job_id \in JobIds :
         Len(jobs[job_id].results) + Len(jobs[job_id].errors) > 0
    /\ \E w \in Workers : w.pc = "requeue" /\ w.item[1] # w.job

\* What a caller reads in the dictionary get_job_status returned.
SnapshotSeen ==
    IF snap = None THEN None
    ELSE [completed |-> snap.completed, status |-> snap.status,
          results |-> ResultsSeen(snap), errors |-> ErrorsSeen(snap)]

\* C5: a snapshot returned by get_job_status keeps the contents it had at the
\* moment of the read: as long as the caller holds it, no progress update of
\* the job changes the completed, status, results or errors read through it.
C5_SnapshotKeepsContents ==
    [][(snap # None /\ snap' = snap) => SnapshotSeen' = SnapshotSeen]_vars

\* C6: results and errors together never hold two entries with the same
\* file_index, and hold exactly one entry per file index once the job is
\* 'completed'.
C6_OneEntryPerIndex ==
    \A job_id \in JobIds :
        LET job == jobs[job_id]
            n(i) == EntriesFor(job.results, i) + EntriesFor(job.errors, i)
        IN  /\ \A i \in FileIndices(job_id) : n(i) <= 1
            /\ job.status = "completed" => \A i \in FileIndices(job_id) : n(i) = 1

\* A job just created is 'pending' with completed == 0, and a status is one of
\* the three of the state machine.
CreatedPending ==
    \A job_id \in 1..Len(jobs') :
        /\ job_id \notin JobIds =>
             jobs'[job_id].status = "pending" /\ jobs'[job_id].completed = 0
        /\ jobs'[job_id].status \in {"pending", "processing", "completed"}

\* C7, as claimed: a job is created 'pending' with completed == 0 and its
\* status changes only from pending to processing and from processing to
\* completed.
C7_StatusMachineStrict ==
    [][/\ CreatedPending
       /\ \A job_id \in JobIds :
            \/ jobs'[job_id].status = jobs[job_id].status
            \/ <<jobs[job_id].status, jobs'[job_id].status>>
                 \in {<<"pending", "processing">>, <<"processing", "completed">>}
      ]_vars

\* C7, amended: a job is created 'pending' with completed == 0; its status
\* changes only from pending to processing, from processing to completed and,
\* when the job's first progress update already makes completed == total (a job
\* of one file), from pending to completed at once; it never moves backwards,
\* 'completed' is terminal and no other status is taken.
C7_StatusMachine ==
    [][/\ CreatedPending
       /\ \A job_id \in JobIds :
            \/ jobs'[job_id].status = jobs[job_id].status
            \/ <<jobs[job_id].status, jobs'[job_id].status>>
                 \in {<<"pending", "processing">>, <<"processing", "completed">>}
            \/ /\ <<jobs[job_id].status, jobs'[job_id].status>> = <<"pending", "completed">>
               /\ jobs[job_id].completed = 0
               /\ jobs[job_id].total = 1
      ]_vars

\* A job of several files, every one of which failed, is 'completed'.
C7_Witness ==
    \E job_id \in JobIds :
        /\ jobs[job_id].total >= 2
        /\ jobs[job_id].status = "completed"
        /\ Len(jobs[job_id].errors) = jobs[job_id].total

\* C18: an empty batch is rejected before a job is created: create_job with
\* no file fails and leaves no job record, so no job has total = 0.
C18_NoEmptyJob ==
    \A job_id \in JobIds : jobs[job_id].total > 0

\* C19: a worker exits once it finds no further work of its job or sees
\* completed = total; a worker whose job is already completed exits even
\* while items of other jobs are in the shared queue.  So no worker whose job
\* has completed = total takes an item of another job off the queue instead.
C19_WorkerOfCompletedJobExits ==
    [][\A w \in Workers :
          (jobs[w.job].completed = jobs[w.job].total /\ worker_get(w))
              => Head(job_queue)[1] = w.job]_vars

\* C20: 0 <= completed <= total for every job, in every state that create_job,
\* start_batch / start_processing and the progress updates reach, a job
\* started more than once included.
C20_CompletedInRange ==
    \A job_id \in JobIds :
        0 <= jobs[job_id].completed /\ jobs[job_id].completed <= jobs[job_id].total

\* How often start_batch has put the item (job_id, file_index) on the queue.
TimesPut(job_id, file_index) ==
    IF st[job_id].putting /\ st[job_id].i <= file_index
    THEN st[job_id].starts - 1
    ELSE st[job_id].starts

\* The copies of the item on the queue.
TimesQueued(item) == Len(SelectSeq(job_queue, LAMBDA task : task = item))

\* The worker threads that hold the item (taken off the queue, not yet
\* processed or put back).
TimesHeld(item) ==
    LET holders == {v \in Workers : v.item = item}
    IN  IF holders = {} THEN 0
        ELSE BagCardinality([w \in holders |-> CopiesIn(w, wk)])

\* The analyzer calls made for the file.
TimesAnalyzed(job_id, file_index) ==
    calls[job_id][file_index + 1].returned + calls[job_id][file_index + 1].raised

\* C21: no file is retried: within one submission of a job the analyzer is
\* called at most once per file index, and a file whose analysis failed is
\* not put back on the queue or analyzed again.  Every item start_batch has
\* put is on the queue, held by a worker or analyzed, once; so the calls for
\* a file never exceed the submissions of its job.
C21_NoRetry ==
    \A job_id \in JobIds :
        \A file_index \in FileIndices(job_id) :
            /\ TimesQueued(<<job_id, file_index>>) + TimesHeld(<<job_id, file_index>>)
                 + TimesAnalyzed(job_id, file_index) = TimesPut(job_id, file_index)
            /\ TimesAnalyzed(job_id, file_index) <= st[job_id].starts

\* A job submitted once is completed with a failed file, analyzed once, and
\* nothing of the job is on the queue or with a worker.
C21_Witness ==
    \E job_id \in JobIds :
        /\ jobs[job_id].total >= 2
        /\ st[job_id].starts = 1
        /\ jobs[job_id].status = "completed"
        /\ calls[job_id][1] = [returned |-> 0, raised |-> 1]
        /\ \A w \in Workers : w.job = job_id => w.pc = "done"
        /\ \A k \in 1..Len(job_queue) : job_queue[k][1] # job_id

\* The worker threads of the job that are inside the analyzer.
Analyzing(job_id) ==
    BagCardinality([w \in {v \in Workers : v.job = job_id /\ v.pc = "process"}
                      |-> CopiesIn(w, wk)])

\* C23: start_batch starts min(max_workers, len(files)) worker threads for
\* the job, so at no time are more than min(max_workers, len(files)) files of
\* one job inside the analyzer.
C23_PoolBoundsAnalyses ==
    \A job_id \in JobIds :
        Analyzing(job_id) <= Min(max_workers, Len(jobs[job_id].files))

----------------------------------------------------------------------------
\* trust_score called on every combination of signals and quality.
InitScore ==
    /\ jobs = <<>>
    /\ job_queue = <<>>
    /\ wk = EmptyBag
    /\ st = <<>>
    /\ calls = <<>>
    /\ snap = None
    /\ score_in \in [vision : Tenths, audio : Tenths, temporal : Tenths, quality : Tenths]
    /\ report = None
    /\ rt = None
    /\ lk = None

call_trust_score ==
    /\ report = None
    /\ report' = trust_score(score_in.vision, score_in.audio, score_in.temporal,
                             score_in.quality)
    /\ UNCHANGED <<jobs, job_queue, wk, st, calls, snap, score_in, rt, lk>>

NextScore == call_trust_score

SpecScore == InitScore /\ [][NextScore]_vars

----------------------------------------------------------------------------
(***************************************************************************)
(* The claims about trust_score.  Scores are in ten-thousandths.           *)
(***************************************************************************)

\* 0.4 * vision + 0.3 * audio + 0.3 * temporal of the call's arguments.
WeightedSum == 400 * score_in.vision + 300 * score_in.audio + 300 * score_in.temporal

\* C8: for signals in [0,1] and every quality >= 0.7, 0.7 included, the score
\* returned is 0.4 * vision + 0.3 * audio + 0.3 * temporal, undampened; all
\* signals 0.8 at quality 0.9 give score 0.8 and decision 'Real'.
C8_NoDampeningAtGoodQuality ==
    (report # None /\ score_in.quality >= 7) =>
        /\ report.score = WeightedSum
        /\ score_in = [vision |-> 8, audio |-> 8, temporal |-> 8, quality |-> 9]
             => report.score = 8000 /\ report.decision = "Real"

\* trust_score has returned for signals 0.8 at a quality of exactly 0.7.
C8_Witness ==
    /\ report # None
    /\ score_in = [vision |-> 8, audio |-> 8, temporal |-> 8, quality |-> 7]
    /\ report.decision = "Real"

\* C9: the score returned is the raw score times a factor that is 0.4 for
\* quality < 0.3, 0.6 for 0.3 <= quality < 0.5, 0.85 for 0.5 <= quality < 0.7
\* and 1.0 from 0.7 on, a boundary taking the higher tier's factor; with the
\* signals fixed, no higher quality gives a lower score.
C9_DampeningStepFunction ==
    report # None =>
        LET q == score_in.quality
            factor == IF q < 3 THEN 40
                      ELSE IF 3 <= q /\ q < 5 THEN 60
                      ELSE IF 5 <= q /\ q < 7 THEN 85
                      ELSE 100
        IN  /\ 100 * report.score = WeightedSum * factor
            /\ \A higher \in Tenths :
                 higher >= q =>
                    trust_score(score_in.vision, score_in.audio, score_in.temporal,
                                higher).score >= report.score

\* trust_score has returned for a quality on the boundary 0.5, dampened by 0.85.
C9_Witness ==
    /\ report # None
    /\ score_in = [vision |-> 6, audio |-> 6, temporal |-> 6, quality |-> 5]
    /\ report.score = 5100

\* C10: for every quality < 0.5 and all signals in [0,1], trust_score returns
\* the decision 'Ambiguous' with a reason that names the low quality; all
\* signals 0.2 at quality 0.2 give score 0.08.
C10_LowQualityForcedAmbiguous ==
    (report # None /\ score_in.quality < 5) =>
        /\ report.decision = "Ambiguous"
        /\ report.reason[1] \in
             {"Very Low Quality Input - Cannot Make Reliable Assessment",
              "Low Quality Input - Limited Confidence"}
        /\ score_in = [vision |-> 2, audio |-> 2, temporal |-> 2, quality |-> 2]
             => report.score = 800

\* trust_score has returned 'Ambiguous' for signals that are all 1.0 at a
\* quality just below 0.5.
C10_Witness ==
    /\ report # None
    /\ score_in = [vision |-> 10, audio |-> 10, temporal |-> 10, quality |-> 4]
    /\ report.decision = "Ambiguous"
    /\ report.score = 6000

\* The insight texts in the order temporal, vision, audio, each with the
\* signal it reports.
InsightOrder ==
    << [signal |-> score_in.temporal, text |-> "high temporal inconsistency"],
       [signal |-> score_in.vision, text |-> "visual artifacts detected"],
       [signal |-> score_in.audio, text |-> "synthetic audio characteristics"] >>

\* The entries of InsightOrder whose signal is below 0.4.
LowSignals == SelectSeq(InsightOrder, LAMBDA e : e.signal < 4)

\* C25: in every quality tier the reason is the tier's reason followed by one
\* insight for each signal strictly below 0.4 and none for a signal at or
\* above 0.4, in the order temporal, vision, audio; with no signal below 0.4
\* the reason is the tier's reason alone.
C25_InsightsForLowSignals ==
    report # None =>
        /\ Len(report.reason) = 1 + Len(LowSignals)
        /\ report.reason[1] =
             DecisionAndReason(QualityTier(score_in.quality), report.score)[2]
        /\ \A i \in 1..Len(LowSignals) : report.reason[i + 1] = LowSignals[i].text
        /\ (score_in.temporal >= 4 /\ score_in.vision >= 4 /\ score_in.audio >= 4)
             => Len(report.reason) = 1

\* trust_score has returned for a low temporal and a low vision signal and an
\* audio signal of exactly 0.4: two insights, temporal first.
C25_Witness ==
    /\ report # None
    /\ score_in.temporal = 3 /\ score_in.vision = 2 /\ score_in.audio = 4
    /\ score_in.quality = 2
    /\ Len(report.reason) = 3
    /\ report.reason[2] = "high temporal inconsistency"
    /\ report.reason[3] = "visual artifacts detected"

----------------------------------------------------------------------------
(***************************************************************************)
(* The decision bands of trust_score on their own.  In the source the      *)
(* adjusted score is any float in [0, 1]; signals in tenths reach only a   *)
(* few of them (0.85 * raw is never 0.65), so the branch that decides is   *)
(* called here on a grid of adjusted scores that holds every threshold.    *)
(***************************************************************************)

\* Adjusted scores 0, 0.0025, ..., 1, in ten-thousandths.
AdjustedScores == {25 * k : k \in 0..400}

InitDecision ==
    /\ jobs = <<>>
    /\ job_queue = <<>>
    /\ wk = EmptyBag
    /\ st = <<>>
    /\ calls = <<>>
    /\ snap = None
    /\ score_in \in [quality : Tenths, adjusted_score : AdjustedScores]
    /\ report = None
    /\ rt = None
    /\ lk = None

\* The if / elif chain on quality and adjusted_score of trust_score.
decide ==
    /\ report = None
    /\ LET dr == DecisionAndReason(QualityTier(score_in.quality), score_in.adjusted_score)
       IN  report' = [decision |-> dr[1], reason |-> dr[2]]
    /\ UNCHANGED <<jobs, job_queue, wk, st, calls, snap, score_in, rt, lk>>

NextDecision == decide

SpecDecision == InitDecision /\ [][NextDecision]_vars

\* The five decisions, from the most fake to the most real.
Decisions == <<"Fake", "Likely Fake", "Ambiguous", "Likely Real", "Real">>

Rank(decision) ==
    IF \E r \in 1..Len(Decisions) : Decisions[r] = decision
    THEN CHOOSE r \in 1..Len(Decisions) : Decisions[r] = decision
    ELSE 0

\* C11: at every quality the decision of an adjusted score in [0,1] is one of
\* Real, Likely Real, Ambiguous, Likely Fake, Fake, and the bands do not
\* overlap: no higher adjusted score at the same quality gets a decision
\* further towards Fake, so each decision is given on one interval of scores.
C11_BandsExhaustiveDisjoint ==
    report # None =>
        /\ \E r \in 1..Len(Decisions) : Decisions[r] = report.decision
        /\ \A higher \in AdjustedScores :
             higher >= score_in.adjusted_score =>
                Rank(DecisionAndReason(QualityTier(score_in.quality), higher)[1])
                    >= Rank(report.decision)

\* A decision was made for the adjusted score 0.35 at quality 0.6, which lies
\* on the edge between two bands.
C11_Witness ==
    /\ report # None
    /\ score_in = [quality |-> 6, adjusted_score |-> 3500]
    /\ report.decision = "Ambiguous"

\* C12: the thresholds are strict.  For 0.5 <= quality < 0.7: adjusted > 0.65
\* is 'Likely Real', adjusted < 0.35 is 'Likely Fake', everything else, both
\* thresholds included, is 'Ambiguous', and 'Real' and 'Fake' never occur.
\* For quality >= 0.7: > 0.7 is 'Real', < 0.3 is 'Fake', 0.55 < adjusted <= 0.7
\* is 'Likely Real', 0.3 <= adjusted < 0.45 is 'Likely Fake' and
\* 0.45 <= adjusted <= 0.55 is 'Ambiguous'.
C12_StrictThresholds ==
    report # None =>
        LET q == score_in.quality
            a == score_in.adjusted_score
            d == report.decision
        IN  /\ (5 <= q /\ q < 7) =>
                /\ a > 6500 => d = "Likely Real"
                /\ a < 3500 => d = "Likely Fake"
                /\ (3500 <= a /\ a <= 6500) => d = "Ambiguous"
                /\ d \notin {"Real", "Fake"}
            /\ q >= 7 =>
                /\ a > 7000 => d = "Real"
                /\ a < 3000 => d = "Fake"
                /\ (5500 < a /\ a <= 7000) => d = "Likely Real"
                /\ (3000 <= a /\ a < 4500) => d = "Likely Fake"
                /\ (4500 <= a /\ a <= 5500) => d = "Ambiguous"

\* A decision was made for an adjusted score of exactly 0.7 at quality 0.7:
\* 'Likely Real', not 'Real'.
C12_Witness ==
    /\ report # None
    /\ score_in = [quality |-> 7, adjusted_score |-> 7000]
    /\ report.decision = "Likely Real"

----------------------------------------------------------------------------
(***************************************************************************)
(* trust_engine/adversarial.py: test_robustness.  A frame is an object     *)
(* (a numpy array): an identity and the pixels the heap holds for it.  The *)
(* caller's frames are the objects 1..n.  The transforms of an attack      *)
(* (cv2 and numpy calls) are opaque: each returns a newly allocated array  *)
(* whose pixels are a function of the frame's pixels, of the attack and of *)
(* its parameter.  The scoring function is the caller's: each call either  *)
(* returns one of Scores (in tenths) or raises.                            *)
(***************************************************************************)

\* The most frames the caller passes.
MaxFrames == 2

Scores == {2, 5, 9}

ScoreOutcomes ==
    [kind : {"return"}, value : Scores] \cup {[kind |-> "raise", value |-> "error"]}

\* attacks of test_robustness, in the order of the loop.
attacks ==
    << <<"compression", "low">>, <<"compression", "medium">>, <<"compression", "high">>,
       <<"noise", "medium">>, <<"blur", "medium">>, <<"resolution", "medium">>,
       <<"crop", "medium">> >>

\* intensity_params of apply_adversarial_attack; 0.8 is 80 (hundredths).
intensity_params ==
    [compression |-> [low |-> 80, medium |-> 50, high |-> 20],
     noise       |-> [low |-> 10, medium |-> 25, high |-> 50],
     blur        |-> [low |-> 3,  medium |-> 5,  high |-> 9],
     resolution  |-> [low |-> 80, medium |-> 50, high |-> 30],
     crop        |-> [low |-> 10, medium |-> 20, high |-> 35],
     color       |-> [low |-> 10, medium |-> 20, high |-> 40]]

\* The pixels of the array a transform returns.
Transformed(pixels, attack_type, param) ==
    [of |-> pixels, attack |-> attack_type, param |-> param]

\* The if / elif chain of apply_adversarial_attack with an attack type that
\* matches no branch: attacked = frame.
AttackedFrameAliased(frame, fresh, attack_type) == frame

\* The object the loop of apply_adversarial_attack appends for a frame: the
\* new array of the attack's transform (fresh), or the frame itself when no
\* branch matches the attack type.
AttackedFrame(frame, fresh, attack_type) ==
    IF attack_type \in {"compression", "noise", "blur", "resolution", "crop", "color"}
    THEN fresh
    ELSE frame

\* apply_adversarial_attack(frames, attack_type, intensity): the new list
\* attacked_frames, and the heap with the arrays allocated for it.
apply_adversarial_attack(heap, frames, attack_type, intensity) ==
    LET param == intensity_params[attack_type][intensity]
        n == Len(frames)
        attacked_frames == [p \in 1..n |-> AttackedFrame(frames[p], n + p, attack_type)]
    IN  [list |-> "attacked_frames",
         items |-> attacked_frames,
         heap |-> [id \in (1..n) \cup {attacked_frames[p] : p \in 1..n} |->
                     IF id \in 1..n THEN heap[id]
                     ELSE Transformed(heap[frames[id - n]], attack_type, param)]]

\* f"{attack_type}_{intensity}" with the intensity left out.
attack_name_by_type(attack_type, intensity) == attack_type

\* attack_name = f"{attack_type}_{intensity}"
attack_name(attack_type, intensity) == attack_type \o "_" \o intensity

\* The difference, without abs().
abs_omitted(x) == x

\* abs() of Python.
abs(x) == IF x < 0 THEN -x ELSE x

\* An empty dict.
EmptyDict == [key \in {} |-> None]

\* The call test_robustness(frames, analyze_function) with n frames, before
\* its first statement.  given is the caller's list and the heap at the call.
NewRobustnessCall(n) ==
    LET frames == [p \in 1..n |-> p]
        heap == [id \in 1..n |-> [of |-> id, attack |-> "none", param |-> 0]]
    IN  [pc |-> "call", frames |-> frames, heap |-> heap,
         given |-> [frames |-> frames, heap |-> heap],
         k |-> 1, results |-> None, log |-> <<>>]

InitRobust ==
    /\ jobs = <<>>
    /\ job_queue = <<>>
    /\ wk = EmptyBag
    /\ st = <<>>
    /\ calls = <<>>
    /\ snap = None
    /\ score_in = None
    /\ report = None
    /\ rt \in {NewRobustnessCall(n) : n \in 0..MaxFrames}
    /\ lk = None

\* results = {'original': analyze_function(frames), 'attacks': {}}
score_original(outcome) ==
    /\ rt.pc = "call"
    /\ LET call == [list |-> "frames", items |-> rt.frames, of |-> "original",
                    kind |-> outcome.kind]
       IN  rt' = IF outcome.kind = "return"
                 THEN [rt EXCEPT !.pc = "loop", !.log = Append(@, call),
                                 !.results = [original |-> outcome.value,
                                              attacks |-> EmptyDict]]
                 ELSE [rt EXCEPT !.pc = "raised", !.log = Append(@, call)]
    /\ UNCHANGED <<jobs, job_queue, wk, st, calls, snap, score_in, report, lk>>

\* One iteration of the loop over attacks: apply the attack, score the
\* attacked frames, store the entry.  An exception of the scoring function is
\* caught nowhere and ends test_robustness.
score_attack(outcome) ==
    /\ rt.pc = "loop"
    /\ rt.k <= Len(attacks)
    /\ LET attack_type == attacks[rt.k][1]
           intensity == attacks[rt.k][2]
           attacked == apply_adversarial_attack(rt.heap, rt.frames, attack_type, intensity)
           call == [list |-> attacked.list, items |-> attacked.items,
                    of |-> attacks[rt.k], kind |-> outcome.kind]
           entry == [score |-> outcome.value,
                     degradation |-> abs(rt.results.original - outcome.value)]
       IN  rt' = IF outcome.kind = "return"
                 THEN [rt EXCEPT !.k = @ + 1, !.heap = attacked.heap,
                                 !.log = Append(@, call),
                                 !.results.attacks =
                                     (attack_name(attack_type, intensity) :> entry) @@ @]
                 ELSE [rt EXCEPT !.pc = "raised", !.heap = attacked.heap,
                                 !.log = Append(@, call)]
    /\ UNCHANGED <<jobs, job_queue, wk, st, calls, snap, score_in, report, lk>>

\* return results
return_results ==
    /\ rt.pc = "loop"
    /\ rt.k > Len(attacks)
    /\ rt' = [rt EXCEPT !.pc = "returned"]
    /\ UNCHANGED <<jobs, job_queue, wk, st, calls, snap, score_in, report, lk>>

NextRobust ==
    \/ \E outcome \in ScoreOutcomes : score_original(outcome)
    \/ \E outcome \in ScoreOutcomes : score_attack(outcome)
    \/ return_results

SpecRobust == InitRobust /\ [][NextRobust]_vars

----------------------------------------------------------------------------
(***************************************************************************)
(* The claims about test_robustness.                                       *)
(***************************************************************************)

\* The calls of the scoring function so far that were made for an attack.
AttackCalls == {i \in 1..Len(rt.log) : rt.log[i].of # "original"}

\* C13: when no call of the scoring function fails, the attacks map returned
\* holds the 7 entries compression low / medium / high and noise, blur,
\* resolution, crop at medium, each under a key of its own, and the scoring
\* function was called once on the original frames and once per entry.
C13_SevenEntries ==
    rt.pc = "returned" =>
        /\ DOMAIN rt.results.attacks =
             {"compression_low", "compression_medium", "compression_high",
              "noise_medium", "blur_medium", "resolution_medium", "crop_medium"}
        /\ Cardinality(DOMAIN rt.results.attacks) = 7
        /\ Len(rt.log) = 8
        /\ rt.log[1].of = "original" /\ rt.log[1].list = "frames"
        /\ \A a \in 1..7 :
             Cardinality({i \in AttackCalls : rt.log[i].of = attacks[a]}) = 1

\* test_robustness has returned for the most frames of the model.
C13_Witness ==
    /\ rt.pc = "returned"
    /\ Len(rt.frames) = MaxFrames
    /\ rt.results.attacks["compression_high"].score # rt.results.original

\* C14: the degradation of every entry is |original score - attack score|,
\* so it is never negative, and it is 0 for every entry when the scoring
\* function gave the same value to every input.
C14_DegradationIsDistance ==
    rt.results # None =>
        LET original == rt.results.original
            entries == rt.results.attacks
        IN  /\ \A name \in DOMAIN entries :
                 /\ entries[name].degradation >= 0
                 /\ \/ entries[name].degradation = original - entries[name].score
                    \/ entries[name].degradation = entries[name].score - original
            /\ (\A name \in DOMAIN entries : entries[name].score = original)
                 => \A name \in DOMAIN entries : entries[name].degradation = 0

\* test_robustness has returned; one attack scored above the original and
\* one below it.
C14_Witness ==
    /\ rt.pc = "returned"
    /\ rt.results.original = 5
    /\ rt.results.attacks["noise_medium"] = [score |-> 9, degradation |-> 4]
    /\ rt.results.attacks["blur_medium"] = [score |-> 2, degradation |-> 3]

\* C15: test_robustness leaves the caller's frame list as it was given (the
\* same length, the same frame objects, the same pixels), and the list the
\* scoring function gets for an attack is a new list that shares no frame
\* object with the caller's.
C15_CallerFramesUntouched ==
    rt # None =>
        /\ rt.frames = rt.given.frames
        /\ \A p \in 1..Len(rt.frames) : rt.heap[rt.frames[p]] = rt.given.heap[rt.frames[p]]
        /\ \A i \in AttackCalls :
             /\ rt.log[i].list # "frames"
             /\ Len(rt.log[i].items) = Len(rt.frames)
             /\ {rt.log[i].items[p] : p \in 1..Len(rt.log[i].items)}
                  \cap {rt.frames[p] : p \in 1..Len(rt.frames)} = {}

\* test_robustness has returned after the scoring function was called on the
\* attacked copies of two frames for every attack.
C15_Witness ==
    /\ rt # None
    /\ rt.pc = "returned"
    /\ Len(rt.frames) >= 2
    /\ \A i \in AttackCalls : Len(rt.log[i].items) >= 2
    /\ Cardinality(AttackCalls) = Len(attacks)

\* C16: a call of the scoring function that fails for one attack does not
\* end test_robustness: the entry is left out or marked, the other attacks
\* are still evaluated and a result is returned.  So test_robustness never
\* ends with the exception of a call made for an attack.
C16_AttackFailureIsolated ==
    rt # None =>
        \A i \in AttackCalls : rt.log[i].kind = "raise" => rt.pc # "raised"

----------------------------------------------------------------------------
(***************************************************************************)
(* The signal providers (signals/vision.py and the wrappers vision_signal, *)
(* audio_signal, temporal_signal) and trust_engine/score_fusion.py:        *)
(* calculate_trust_score.  What a provider measures on real input is an    *)
(* input of the model (a number of tenths); what it answers without input  *)
(* is the source's.  frames is the number of frames, audio_path is NoArg   *)
(* or a path.  A confidence is a number of thirtieths (0.8 is 24).  The    *)
(* fused score is in hundredths.  The quality calculate_trust_score        *)
(* derives from np.std is left out.                                        *)
(***************************************************************************)

\* signals/vision.py analyze_frames(frames): 0.0 for no frames, else the mean
\* of the frames' combined scores.
analyze_frames(frames, measured) == IF frames = 0 THEN 0 ELSE measured

\* signals/vision_signal.py analyze_vision(frames)
analyze_vision(frames, measured) ==
    IF frames = 0
    THEN [score |-> 5, confidence |-> 0]
    ELSE [score |-> analyze_frames(frames, measured), confidence |-> Min(30, frames)]

\* signals/audio_signal.py analyze_audio(audio_path)
analyze_audio(audio_path, measured) ==
    IF audio_path = NoArg
    THEN [score |-> 5, confidence |-> 0]
    ELSE [score |-> measured, confidence |-> IF measured # 5 THEN 24 ELSE 0]

\* signals/temporal_signal.py analyze_temporal(frames)
analyze_temporal(frames, measured) ==
    IF frames < 2
    THEN [score |-> 5, confidence |-> 0]
    ELSE [score |-> measured, confidence |-> IF measured # 5 THEN Min(30, frames) ELSE 0]

\* signals.get(name, {}).get("score", 0.5)
ScoreOrDefault(signals, name) ==
    IF name \in DOMAIN signals /\ "score" \in DOMAIN signals[name]
    THEN signals[name].score
    ELSE 5

\* calculate_trust_score(signals): the trust score.
calculate_trust_score(signals) ==
    ScoreOrDefault(signals, "vision") * 4
    + ScoreOrDefault(signals, "audio") * 3
    + ScoreOrDefault(signals, "temporal") * 3

SignalNames == {"vision", "audio", "temporal"}

\* The providers called on every input, and the signals of every subset of
\* them fused.
InitSignals ==
    /\ jobs = <<>>
    /\ job_queue = <<>>
    /\ wk = EmptyBag
    /\ st = <<>>
    /\ calls = <<>>
    /\ snap = None
    /\ score_in \in [frames : 0..MaxFrames, audio_path : {NoArg, "audio.wav"},
                     measured : [SignalNames -> Tenths],
                     present : SUBSET SignalNames]
    /\ report = None
    /\ rt = None
    /\ lk = None

\* The providers are called, then calculate_trust_score on the signals present.
analyze_signals ==
    /\ report = None
    /\ LET provided ==
               [vision |-> analyze_vision(score_in.frames, score_in.measured["vision"]),
                audio |-> analyze_audio(score_in.audio_path, score_in.measured["audio"]),
                temporal |-> analyze_temporal(score_in.frames, score_in.measured["temporal"])]
           signals == [name \in score_in.present |-> provided[name]]
       IN  report' = [vision_score |-> analyze_frames(score_in.frames,
                                                      score_in.measured["vision"]),
                      signals |-> provided,
                      trust_score |-> calculate_trust_score(signals)]
    /\ UNCHANGED <<jobs, job_queue, wk, st, calls, snap, score_in, rt, lk>>

NextSignals == analyze_signals

SpecSignals == InitSignals /\ [][NextSignals]_vars

\* C17: a signal that is missing counts as the neutral 0.5 with confidence
\* 0.0: the fused score with a signal absent is the fused score with that
\* signal at 0.5, and what each provider answers without input (no frames,
\* no audio) has the value 0.5.
C17_MissingSignalNeutral ==
    report # None =>
        LET value(name) == IF name \in score_in.present
                           THEN report.signals[name].score
                           ELSE 5
        IN  /\ report.trust_score = 4 * value("vision") + 3 * value("audio")
                                    + 3 * value("temporal")
            /\ score_in.frames = 0 =>
                 /\ report.vision_score = 5
                 /\ report.signals.vision = [score |-> 5, confidence |-> 0]
                 /\ report.signals.temporal = [score |-> 5, confidence |-> 0]
            /\ score_in.audio_path = NoArg =>
                 report.signals.audio = [score |-> 5, confidence |-> 0]

----------------------------------------------------------------------------
(***************************************************************************)
(* The locks of the batch processor.  In the specifications above a        *)
(* section under a lock is one step; here it is entered and left, by the   *)
(* threads that call update_job_progress (the workers, for a file each),   *)
(* the completion check of _worker, and get_job_status followed by the     *)
(* serialization of the dictionary it returned (get_batch_status).  A lock *)
(* is free when no thread holds it.                                        *)
(***************************************************************************)

\* The threads that call into the locked sections.
MaxThreads == 2

LockThreads == 1..MaxThreads

\* self.locks[job_id]: create_job makes a new threading.Lock() for every job.
LockOf(job_id) == job_id

Idle == [op |-> "idle", job_id |-> 0, pc |-> "idle", holds |-> 0, copy |-> None]

Holder(lock) == {t \in LockThreads : lk[t].holds = lock}

\* The update_job_progress calls of a job that are under way.
Updating(job_id) ==
    {t \in LockThreads : lk[t].op = "update_job_progress" /\ lk[t].job_id = job_id}

InitLocks ==
    /\ jobs = <<>>
    /\ job_queue = <<>>
    /\ wk = EmptyBag
    /\ st = <<>>
    /\ calls = <<>>
    /\ snap = None
    /\ score_in = None
    /\ report = None
    /\ rt = None
    /\ lk = [t \in LockThreads |-> Idle]

\* A thread calls update_job_progress, get_job_status or reaches the
\* 'except queue.Empty' of _worker, for a job that exists, and comes to the
\* 'with self.locks[job_id]'.  A progress update is made per file of the job.
call_locked(t, op, job_id) ==
    /\ lk[t].pc = "idle"
    /\ op = "update_job_progress" =>
         jobs[job_id].completed + Cardinality(Updating(job_id)) < jobs[job_id].total
    /\ lk' = [lk EXCEPT ![t] = [Idle EXCEPT !.op = op, !.job_id = job_id,
                                            !.pc = "acquire"]]
    /\ UNCHANGED <<jobs, job_queue, wk, st, calls, snap, score_in, report, rt>>

\* 'with self.locks[job_id]:' the lock is acquired when it is free.
acquire(t) ==
    /\ lk[t].pc = "acquire"
    /\ Holder(LockOf(lk[t].job_id)) = {}
    /\ lk' = [lk EXCEPT ![t].pc = "locked", ![t].holds = LockOf(lk[t].job_id)]
    /\ UNCHANGED <<jobs, job_queue, wk, st, calls, snap, score_in, report, rt>>

\* The body of update_job_progress, for the next file of the job; the lock
\* is released at its end.
release_update(t, outcome) ==
    /\ lk[t].pc = "locked"
    /\ lk[t].op = "update_job_progress"
    /\ LET job == jobs[lk[t].job_id]
       IN  jobs' = [jobs EXCEPT ![lk[t].job_id] =
                      IF outcome.kind = "return"
                      THEN UpdateJobProgress(job, job.completed, outcome.value, NoArg)
                      ELSE UpdateJobProgress(job, job.completed, NoArg, outcome.value)]
    /\ lk' = [lk EXCEPT ![t] = Idle]
    /\ UNCHANGED <<job_queue, wk, st, calls, snap, score_in, report, rt>>

\* The body of get_job_status: self.jobs[job_id].copy() is returned and the
\* lock released.
release_status(t) ==
    /\ lk[t].pc = "locked"
    /\ lk[t].op = "get_job_status"
    /\ lk' = [lk EXCEPT ![t].pc = "serialize", ![t].holds = 0,
                        ![t].copy = ShallowCopy(jobs[lk[t].job_id])]
    /\ UNCHANGED <<jobs, job_queue, wk, st, calls, snap, score_in, report, rt>>

\* The completion check of _worker; the lock is released at its end.
release_check(t) ==
    /\ lk[t].pc = "locked"
    /\ lk[t].op = "_worker"
    /\ lk' = [lk EXCEPT ![t] = Idle]
    /\ UNCHANGED <<jobs, job_queue, wk, st, calls, snap, score_in, report, rt>>

\* get_batch_status: JSONResponse(content=status) has read the dictionary
\* and its lists.
serialized(t) ==
    /\ lk[t].pc = "serialize"
    /\ lk' = [lk EXCEPT ![t] = Idle]
    /\ UNCHANGED <<jobs, job_queue, wk, st, calls, snap, score_in, report, rt>>

NextLocks ==
    \/ \E n \in 0..MaxItems : create_job(n)
    \/ \E t \in LockThreads, job_id \in JobIds,
          op \in {"update_job_progress", "get_job_status", "_worker"} :
            call_locked(t, op, job_id)
    \/ \E t \in LockThreads : acquire(t)
    \/ \E t \in LockThreads, outcome \in Outcomes : release_update(t, outcome)
    \/ \E t \in LockThreads : release_status(t)
    \/ \E t \in LockThreads : release_check(t)
    \/ \E t \in LockThreads : serialized(t)

SpecLocks == InitLocks /\ [][NextLocks]_vars

\* The fields of jobs that the thread reads or writes in its present state,
\* as pairs of job id and field.
Accessing(t) ==
    CASE lk[t].pc = "locked" /\ lk[t].op = "update_job_progress" ->
            {lk[t].job_id} \X {"completed", "results", "errors", "status"}
      [] lk[t].pc = "locked" /\ lk[t].op = "get_job_status" ->
            {lk[t].job_id} \X {"completed", "status"}
      [] lk[t].pc = "locked" /\ lk[t].op = "_worker" ->
            {lk[t].job_id} \X {"completed"}
      [] lk[t].pc = "serialize" ->
            {<<lk[t].copy.results_of, "results">>, <<lk[t].copy.errors_of, "errors">>}
      [] OTHER -> {}

\* No two threads are inside a locked section of the same job.
OneThreadPerJob ==
    \A t, u \in LockThreads :
        (t # u /\ lk[t].pc = "locked" /\ lk[u].pc = "locked")
            => lk[t].job_id # lk[u].job_id

\* A thread that cannot enter waits for a thread that is inside a section of
\* the same job.
WaitsForOwnJobOnly ==
    \A t \in LockThreads :
        lk[t].pc = "acquire" =>
            \A u \in Holder(LockOf(lk[t].job_id)) : lk[u].job_id = lk[t].job_id

\* A thread touches a field of a job only with that job's lock.
AccessUnderLock ==
    \A t \in LockThreads :
        \A access \in Accessing(t) : lk[t].holds = LockOf(access[1])

\* C22: completed, results, errors and status of a job are read and written
\* only with the job's own lock held: no two threads are inside the progress
\* update (or get_job_status, or the worker's check) of one job at once, and
\* a thread never waits for a lock that is held for another job.
C22_PerJobLock ==
    /\ OneThreadPerJob
    /\ WaitsForOwnJobOnly
    /\ AccessUnderLock

----------------------------------------------------------------------------
(***************************************************************************)
(* Progress.  The threads are scheduled by the interpreter: a thread that  *)
(* can take its next step takes it at some time.  That is weak fairness of *)
(* start_batch's loop of puts and of the step of every worker thread; the  *)
(* worker threads have no name, so the step is that of a worker in a given *)
(* state.  Nothing more is assumed: which of several threads gets an item  *)
(* of the queue is not decided by the code.                                *)
(***************************************************************************)

\* The states a worker thread can be in.
WorkerStates ==
    [job : 1..MaxJobs, pc : {"get", "process", "requeue", "check"},
     item : {<<>>} \cup ((1..MaxJobs) \X (0..(MaxItems - 1)))]

\* The next step of a worker thread that is in state v.
WorkerStep(v) ==
    /\ v \in Workers
    /\ \/ worker_get(v)
       \/ worker_requeue(v)
       \/ worker_empty(v)
       \/ worker_check(v)
       \/ \E outcome \in Outcomes : process_file(v, outcome)

Fairness ==
    /\ \A job_id \in 1..MaxJobs : WF_vars(job_id \in JobIds /\ put_item(job_id))
    /\ \A v \in WorkerStates : WF_vars(WorkerStep(v))

\* One job of at least one file, started once.
NextOneJob ==
    \/ \E n \in 1..MaxItems : jobs = <<>> /\ create_job(n)
    \/ \E job_id \in JobIds : st[job_id].starts = 0 /\ start_batch(job_id)
    \/ \E job_id \in JobIds : put_item(job_id)
    \/ \E w \in Workers : worker_get(w)
    \/ \E w \in Workers : worker_empty(w)
    \/ \E w \in Workers : worker_check(w)
    \/ \E w \in Workers, outcome \in Outcomes : process_file(w, outcome)

SpecOneJob == Init /\ [][NextOneJob]_vars /\ Fairness

\* C27: one job, of at least one file, started once, every analyzer call
\* returning or raising: after start_batch the job at some time has status
\* 'completed' and all its worker threads have exited, although the workers
\* run before the items are on the queue.
C27_SingleJobTerminates ==
    (Len(jobs) = 1 /\ st[1].starts = 1)
        ~> (/\ Len(jobs) = 1
            /\ jobs[1].status = "completed"
            /\ \A w \in Workers : w.pc = "done")

\* The job of several files is completed and its workers have exited.
C27_Witness ==
    /\ Len(jobs) = 1
    /\ jobs[1].total >= 2
    /\ st[1].starts = 1
    /\ jobs[1].status = "completed"
    /\ BagCardinality(wk) = Min(max_workers, jobs[1].total)
    /\ \A w \in Workers : w.pc = "done"

----------------------------------------------------------------------------
(***************************************************************************)
(* An analyzer call that does not return.  process_file calls              *)
(* analyze_function(filepath) with no timeout, so the worker thread stays  *)
(* in the call: no result, no error, no progress update.                   *)
(***************************************************************************)

analyzer_hangs(w) ==
    /\ w.pc = "process"
    /\ wk' = Moved(w, [w EXCEPT !.pc = "hung"])
    /\ UNCHANGED <<jobs, job_queue, st, calls, snap, score_in, report, rt, lk>>

NextHang ==
    \/ NextOneJob
    \/ \E w \in Workers : analyzer_hangs(w)

SpecHang == Init /\ [][NextHang]_vars /\ Fairness

\* C24: an analysis that does not return is recorded as an error of its file
\* and does not stall the job: once a call hangs, the job still reaches
\* status 'completed'.
C24_TimeoutDoesNotStall ==
    (\E w \in Workers : w.pc = "hung")
        ~> (Len(jobs) = 1 /\ jobs[1].status = "completed")

----------------------------------------------------------------------------
(***************************************************************************)
(* main.py run_analysis and trust_engine/score_fusion.py generate_report.  *)
(* The signal scores, the deep-learning result and the parsed answer of    *)
(* the language model are inputs.  Signal scores are in tenths; the score  *)
(* fused with the deep-learning score and given to generate_report is in   *)
(* thousandths; the score after the language model's adjustment, on which  *)
(* the final decision is taken, is in ten-thousandths.  The quality that   *)
(* calculate_trust_score returns is 1 - np.std(scores); it is kept as nine *)
(* times the variance of the scores in tenths, so that quality >= 0.7 is a *)
(* spread <= 81 and quality < 0.5 a spread > 225.  The reason text is left *)
(* out.                                                                    *)
(***************************************************************************)

\* What analyze_frames_dl can answer.
DLResults ==
    {[success |-> FALSE, model_loaded |-> FALSE, score |-> 5]}
    \cup [success : {TRUE}, model_loaded : BOOLEAN, score : Tenths]

\* llm_analysis["parsed"], or None when the language model is not used or
\* gives nothing parsed.
LLMResults ==
    {None} \cup [confidence : {"high", "medium"},
                 verdict : {"authentic", "manipulated", "uncertain"}]

\* calculate_trust_score: 9 * variance of the three scores, for
\* quality = 1 - np.std(scores).
Spread(signals) ==
    LET v == ScoreOrDefault(signals, "vision")
        a == ScoreOrDefault(signals, "audio")
        t == ScoreOrDefault(signals, "temporal")
    IN  3 * (v * v + a * a + t * t) - (v + a + t) * (v + a + t)

\* score_fusion.generate_report(trust_score, signals, quality_assessment):
\* decision and confidence, from its trust_score (score) in thousandths.
generate_report(score, signals, quality_assessment) ==
    IF score >= 700 THEN [decision |-> "Likely Real", confidence |-> "high"]
    ELSE IF score >= 550 THEN [decision |-> "Possibly Real", confidence |-> "medium"]
    ELSE IF score >= 450 THEN [decision |-> "Ambiguous", confidence |-> "low"]
    ELSE IF score >= 300 THEN [decision |-> "Possibly Fake", confidence |-> "medium"]
    ELSE [decision |-> "Likely Fake", confidence |-> "high"]

\* run_analysis with frames extracted.
run_analysis(in) ==
    LET signals == [vision |-> [score |-> in.vision],
                    audio |-> [score |-> in.audio],
                    temporal |-> [score |-> in.temporal]]
        base == calculate_trust_score(signals)
        quality_assessment == Spread(signals)
        fused == IF in.dl.success
                 THEN IF in.dl.model_loaded
                      THEN base * 4 + in.dl.score * 60
                      ELSE base * 7 + in.dl.score * 30
                 ELSE base * 10
        basic == generate_report(fused, signals, quality_assessment)
        adjusted == IF in.llm # None /\ in.llm.confidence = "high"
                    THEN IF in.llm.verdict = "authentic" THEN fused * 7 + 3000
                         ELSE IF in.llm.verdict = "manipulated" THEN fused * 7
                         ELSE fused * 10
                    ELSE fused * 10
        decision == IF adjusted >= 8000 THEN "Likely Real"
                    ELSE IF adjusted >= 6000 THEN "Possibly Real"
                    ELSE IF adjusted >= 4000 THEN "Ambiguous"
                    ELSE IF adjusted >= 2000 THEN "Possibly Fake"
                    ELSE "Likely Fake"
    IN  [trust_score |-> adjusted, decision |-> decision,
         confidence |-> basic.confidence, report_score |-> fused,
         report_decision |-> basic.decision,
         quality_assessment |-> quality_assessment]

\* run_analysis when no frame could be extracted.
AnalysisFailed ==
    [trust_score |-> 5000, decision |-> "Analysis Failed", confidence |-> "none",
     report_score |-> 500, report_decision |-> "Analysis Failed",
     quality_assessment |-> None]

InitAnalysis ==
    /\ jobs = <<>>
    /\ job_queue = <<>>
    /\ wk = EmptyBag
    /\ st = <<>>
    /\ calls = <<>>
    /\ snap = None
    /\ score_in \in [frames : {0}, vision : {5}, audio : {5}, temporal : {5},
                     dl : {[success |-> FALSE, model_loaded |-> FALSE, score |-> 5]},
                     llm : {None}]
                    \cup [frames : {1}, vision : Tenths, audio : Tenths,
                          temporal : Tenths, dl : DLResults, llm : LLMResults]
    /\ report = None
    /\ rt = None
    /\ lk = None

call_run_analysis ==
    /\ report = None
    /\ report' = IF score_in.frames = 0 THEN AnalysisFailed ELSE run_analysis(score_in)
    /\ UNCHANGED <<jobs, job_queue, wk, st, calls, snap, score_in, rt, lk>>

NextAnalysis == call_run_analysis

SpecAnalysis == InitAnalysis /\ [][NextAnalysis]_vars

\* A report of an analysis that had frames.
Analyzed == report # None /\ score_in.frames # 0

\* C26: the confidence label depends on the quality tier: for quality < 0.5
\* it is never 'high'; for quality >= 0.7 it is 'high' only when the score
\* the report is made from is > 0.7 or < 0.3, 'medium' in the inner
\* likely-bands (above 0.55 up to 0.7, from 0.3 to below 0.45) and 'low'
\* when the report's decision is 'Ambiguous'.
C26_ConfidenceByQualityTier ==
    Analyzed =>
        /\ report.quality_assessment > 225 => report.confidence # "high"
        /\ report.quality_assessment <= 81 =>
             /\ report.confidence = "high" =>
                  (report.report_score > 700 \/ report.report_score < 300)
             /\ (\/ (550 < report.report_score /\ report.report_score <= 700)
                 \/ (300 <= report.report_score /\ report.report_score < 450))
                  => report.confidence = "medium"
             /\ report.report_decision = "Ambiguous" => report.confidence = "low"

\* C29: in the result of run_analysis the confidence agrees with the
\* decision, whatever the trust score and the language model's adjustment:
\* 'Likely Real' and 'Likely Fake' with 'high', 'Possibly Real' and
\* 'Possibly Fake' with 'medium', 'Ambiguous' with 'low'.
C29_ConfidenceAgreesWithDecision ==
    Analyzed =>
        /\ report.decision \in {"Likely Real", "Likely Fake"}
             => report.confidence = "high"
        /\ report.decision \in {"Possibly Real", "Possibly Fake"}
             => report.confidence = "medium"
        /\ report.decision = "Ambiguous" => report.confidence = "low"

----------------------------------------------------------------------------
(***************************************************************************)
(* trust_engine/failure_modes.py: resolution_quality and the resolution    *)
(* entry of analyze_quality.  A frame is its shape (height, width).  A     *)
(* score is kept as a whole number of 1/3072000 (1/(10 * 640 * 480)): 1.0  *)
(* is 3072000, 0.7 is 2150400, 0.3 is 921600 and pixels / (640 * 480) is   *)
(* 10 * pixels.                                                            *)
(***************************************************************************)

\* The shapes of the frames analysed.
Heights == {120, 240, 360, 479, 480, 720, 1080}
Widths == {160, 320, 639, 640, 1280, 1920}

Pixels(frame) == frame.height * frame.width

\* resolution_quality(frame)
resolution_quality(frame) ==
    LET pixels == Pixels(frame)
    IN  IF pixels >= 1280 * 720 THEN 3072000
        ELSE IF pixels >= 640 * 480 THEN 2150400
        ELSE Max(921600, 10 * pixels)

\* analyze_quality(frames): the resolution scores of the frames and
\* 'resolution', their mean, times the number of frames; 0.0 for no frames.
analyze_quality(frames) ==
    LET resolution_scores == [i \in 1..Len(frames) |-> resolution_quality(frames[i])]
        Sum[i \in 0..Len(frames)] ==
            IF i = 0 THEN 0 ELSE Sum[i - 1] + resolution_scores[i]
    IN  [resolution_scores |-> resolution_scores,
         resolution_sum |-> Sum[Len(frames)]]

InitQuality ==
    /\ jobs = <<>>
    /\ job_queue = <<>>
    /\ wk = EmptyBag
    /\ st = <<>>
    /\ calls = <<>>
    /\ snap = None
    /\ score_in \in UNION {[1..n -> [height : Heights, width : Widths]] :
                            n \in 0..MaxFrames}
    /\ report = None
    /\ rt = None
    /\ lk = None

call_analyze_quality ==
    /\ report = None
    /\ report' = analyze_quality(score_in)
    /\ UNCHANGED <<jobs, job_queue, wk, st, calls, snap, score_in, rt, lk>>

NextQuality == call_analyze_quality

SpecQuality == InitQuality /\ [][NextQuality]_vars

\* Every resolution score is between 0.3 and 1.0.
ResolutionInRange ==
    \A i \in DOMAIN score_in :
        /\ 921600 <= report.resolution_scores[i]
        /\ report.resolution_scores[i] <= 3072000

\* Of two frames, the one with no fewer pixels has no lower resolution score.
ResolutionNonDecreasing ==
    \A i, j \in DOMAIN score_in :
        Pixels(score_in[i]) <= Pixels(score_in[j])
            => report.resolution_scores[i] <= report.resolution_scores[j]

\* C30: resolution_quality does not decrease when the pixel count grows, and
\* its value is always between 0.3 and 1.0.
C30_ResolutionMonotone ==
    report # None => (ResolutionNonDecreasing /\ ResolutionInRange)

----------------------------------------------------------------------------
(***************************************************************************)
(* Two jobs on the shared queue, each of at least one file and started     *)
(* once, under the same fairness: every thread that can take its next step *)
(* takes it at some time.                                                  *)
(***************************************************************************)

NextTwoJobs ==
    \/ \E n \in 1..MaxItems : create_job(n)
    \/ \E job_id \in JobIds : st[job_id].starts = 0 /\ start_batch(job_id)
    \/ \E job_id \in JobIds : put_item(job_id)
    \/ \E w \in Workers : worker_get(w)
    \/ \E w \in Workers : worker_requeue(w)
    \/ \E w \in Workers : worker_empty(w)
    \/ \E w \in Workers : worker_check(w)
    \/ \E w \in Workers, outcome \in Outcomes : process_file(w, outcome)

SpecTwoJobs == Init /\ [][NextTwoJobs]_vars /\ Fairness

\* Two jobs have been created and each has been started.
TwoJobsRunning ==
    /\ Len(jobs) >= 2
    /\ st[1].starts = 1
    /\ st[2].starts = 1

\* C28: two jobs running on the shared queue, each started once, their
\* analyzer calls returning or raising and every thread scheduled fairly,
\* both reach status 'completed': the taking and putting back of the other
\* job's items does not go on forever.
C28_BothJobsComplete ==
    TwoJobsRunning
        ~> (/\ Len(jobs) >= 2
            /\ jobs[1].status = "completed"
            /\ jobs[2].status = "completed")

====
